---- MODULE Spec2Model ----
(***************************************************************************)
(* Model of sp1's build helper (helper/src/lib.rs): build_program resolves *)
(* the program directory, emits the rerun triggers, looks up the package   *)
(* name, and calls execute_build_cmd, which spawns 'cargo prove build',    *)
(* relays the two output pipes line by line with a "[sp1] " prefix (stdout *)
(* on a worker thread, stderr on the invoking thread), joins the worker    *)
(* and waits on the child.                                                 *)
(*                                                                         *)
(* Three processes run concurrently: the invoking thread (pc), the worker  *)
(* thread (wpc) and the subprocess (cpc).  A pipe is a bounded FIFO of     *)
(* lines with a write end (held by the subprocess) and a read end (held by *)
(* one parent thread).                                                     *)
(***************************************************************************)
EXTENDS Integers, Sequences, FiniteSets, TLC

\* ---------------------------------------------------------------- bounds
\* Most lines the subprocess writes to one stream.
MaxLines == 2
\* Capacity of one pipe, in lines.
PipeCap == 1

\* ------------------------------------------------------------- constants
None == "<none>"
\* No path: the value of program_dir before the resolution.
NoPath == <<>>
\* io::Result of a path.
Ok(v) == [ok |-> TRUE, val |-> v]
Err == [ok |-> FALSE, val |-> NoPath]
\* An environment variable: unset, set to a value that is not unicode
\* (std::env::var returns Err for both), or set to a unicode value.
Unset == [set |-> FALSE, unicode |-> FALSE, val |-> <<>>]
NotUnicode == [set |-> TRUE, unicode |-> FALSE, val |-> <<>>]
Val(v) == [set |-> TRUE, unicode |-> TRUE, val |-> v]
\* Result<ExitStatus, io::Error> of execute_build_cmd.
NoResult == [kind |-> "none", status |-> {}]
OkStatus(st) == [kind |-> "ok", status |-> {st}]
IoError == [kind |-> "err", status |-> {}]
\* A line that is not valid UTF-8: BufRead::lines yields Err(InvalidData).
InvalidLine == "<invalid-utf8>"
Streams == {"out", "err"}
\* The text of the i-th line the subprocess writes to stream s, when it is
\* valid UTF-8: all lines differ, so a line relayed twice, out of order or
\* to the other channel shows.
LineText(s, i) == s \o "-line-" \o ToString(i)
\* What the subprocess can write as its i-th line to stream s.
Lines(s, i) == {LineText(s, i), InvalidLine}
\* Exit codes of the subprocess.
Statuses == {0, 1}
\* ExitStatus::default(), for which success() holds.
DefaultExitStatus == 0
\* The variables of the environment the helper reads or sets.
EnvVars == {"CARGO_MANIFEST_DIR", "RUSTC", "RUSTC_WORKSPACE_WRAPPER"}
\* No command: the value of cmd before the spawn.
NoCommand ==
    [ program |-> "", args |-> <<>>, cwd |-> NoPath,
      env |-> [v \in EnvVars |-> Unset] ]
\* Package names cargo_metadata can report for the manifest.
PackageNames == {"fibonacci"}

\* ------------------------------------------------------------ filesystem
\* A path is a sequence of components; an absolute path starts with "/".
Root == <<"/">>
\* The directories that exist, by canonical path.
Dirs ==
    { Root, <<"/", "ws">>, <<"/", "ws", "crate">>, <<"/", "ws", "prog">>,
      <<"/", "ws", "other">>, <<"/", "cwd">>, <<"/", "cwd", "only_cwd">> }
\* The symbolic links that exist: canonical path of the link -> target.
SymlinkPaths == { <<"/", "ws", "crate", "link">> }
SymlinkTarget(p) == <<"..", "prog">>
\* Links followed before canonicalize gives up (ELOOP).
MaxLinks == 4
\* The process's working directory (never consulted by the helper).
WorkingDir == <<"/", "cwd">>
\* The arguments build_program is called with.
InputPaths ==
    { <<"..", "prog">>, <<"link">>, <<"/", "ws", "other">>,
      <<"missing">>, <<"/", "nope">>, <<"only_cwd">> }

VARIABLES
    path,               \* build_program's argument
    env,                \* the parent process's environment
    pc,                 \* position of the invoking thread
    program_dir,        \* the resolved directory, or NoPath
    dirs,               \* trigger paths still to be printed
    root_package_name,  \* the display name, or None before the lookup
    stdoutP,            \* what the parent has printed to its standard-out
    stderrP,            \* what the parent has printed to its standard-error
    panicMsg,           \* message of the panic that aborted the invocation
    result,             \* execute_build_cmd's return value, or NoResult
    wpc,                \* position of the stdout worker thread
    cpc,                \* state of the subprocess
    cnext,              \* <<stream, line>>: the write the subprocess is in
    pipe,               \* stream -> lines in flight in its pipe
    wOpen,              \* stream -> the subprocess's write end is open
    rOpen,              \* stream -> the parent's read end is open
    wrote,              \* stream -> lines the subprocess put into the pipe
    exitStatus,         \* {exit code} once the subprocess has exited
    readErr,            \* streams on which a line read has failed
    readBy,             \* stream -> the parent threads that read its pipe
    cmd,                \* the command the subprocess was started with
    nSpawns, nThreads, nWaits   \* subprocess spawns, thread spawns, waits

vars == << path, env, pc, program_dir, dirs, root_package_name, stdoutP,
           stderrP, panicMsg, result, wpc, cpc, cnext, pipe,
           wOpen, rOpen, wrote, exitStatus, readErr, readBy, cmd, nSpawns,
           nThreads, nWaits >>

inputVars == << path, env >>
buildVars == << program_dir, dirs, root_package_name >>
childVars == << cpc, cnext, wOpen, wrote, exitStatus >>
countVars == << nSpawns, nThreads, nWaits >>

\* ------------------------------------------------------- path operations
\* Path::is_relative
is_relative(p) == p = <<>> \/ p[1] # "/"

\* PathBuf::join with a relative argument appends; an absolute one replaces.
join(base, p) == IF is_relative(p) THEN base \o p ELSE p

Parent(p) == IF Len(p) <= 1 THEN Root ELSE SubSeq(p, 1, Len(p) - 1)

\* fs::canonicalize: walk the components from cur, following links.
RECURSIVE Walk(_, _, _)
Walk(cur, rest, fuel) ==
    IF rest = <<>> THEN cur
    ELSE IF fuel = 0 THEN NoPath
    ELSE LET c == Head(rest)
             cand == cur \o <<c>>
         IN  IF c = "." THEN Walk(cur, Tail(rest), fuel)
             ELSE IF c = ".." THEN Walk(Parent(cur), Tail(rest), fuel)
             ELSE IF cand \in Dirs THEN Walk(cand, Tail(rest), fuel)
             ELSE IF cand \in SymlinkPaths
                  THEN LET t == SymlinkTarget(cand)
                       IN  IF is_relative(t)
                           THEN Walk(cur, t \o Tail(rest), fuel - 1)
                           ELSE Walk(Root, Tail(t) \o Tail(rest), fuel - 1)
             ELSE NoPath

canonicalize(p) ==
    LET c == IF is_relative(p) THEN Walk(WorkingDir, p, MaxLinks)
             ELSE Walk(Root, Tail(p), MaxLinks)
    IN  IF c = NoPath THEN Err ELSE Ok(c)

\* current_dir(): the directory of the build script.
current_dir == env["CARGO_MANIFEST_DIR"].val

\* Variant: the relative path is canonicalized as it is, that is against
\* the working directory.
get_absolute_dir_via_cwd(p) == canonicalize(p)

\* Lines 22-29.
get_absolute_dir_of_program(p) ==
    canonicalize(IF is_relative(p) THEN join(current_dir, p) ELSE p)

\* Path::display
RECURSIVE JoinComps(_)
JoinComps(p) ==
    IF p = <<>> THEN ""
    ELSE IF Len(p) = 1 THEN p[1]
    ELSE p[1] \o "/" \o JoinComps(Tail(p))

display(p) ==
    IF is_relative(p) THEN JoinComps(p)
    ELSE IF Len(p) = 1 THEN "/" ELSE "/" \o JoinComps(Tail(p))

\* ------------------------------------------------------------- messages
Prefix == "[sp1] "
Relayed(line) == Prefix \o line
Trigger(d) == "cargo:rerun-if-changed=" \o display(d)
\* current_datetime(): the clock is not modelled.
current_datetime == "<now>"
BuiltWarning(name) ==
    "cargo:warning=" \o name \o " built at " \o current_datetime
SkipNotice == "cargo:warning=Skipping build due to clippy invocation."
\* The source quotes the names with backquotes; they are written ' here.
ResolveFailure(p) ==
    "Failed to get the absolute path of the program directory '"
        \o display(p) \o "'."
BuildFailure(name) == "Failed to build '" \o name \o "'."
UnwrapFailure == "called 'Result::unwrap()' on an 'Err' value"

\* Variant: the lock file is left out of the vec.
TriggerDirsNoLock(d) ==
    << join(d, <<"src">>), join(d, <<"Cargo.toml">>) >>

\* The three paths whose change reruns the build script.
TriggerDirs(d) ==
    << join(d, <<"src">>), join(d, <<"Cargo.toml">>), join(d, <<"Cargo.lock">>) >>

\* ------------------------------------------------------------------ Init
WrapperValues ==
    { Unset, NotUnicode, Val(<<"/bin/", "clippy-driver">>), Val(<<"sccache">>) }

Init ==
    /\ path \in InputPaths
    /\ \E w \in WrapperValues :
         env = [ CARGO_MANIFEST_DIR |-> Val(<<"/", "ws", "crate">>),
                 RUSTC |-> Val(<<"/bin/", "rustc">>),
                 RUSTC_WORKSPACE_WRAPPER |-> w ]
    /\ pc = "resolve"
    /\ program_dir = NoPath
    /\ dirs = <<>>
    /\ root_package_name = None
    /\ stdoutP = <<>>
    /\ stderrP = <<>>
    /\ panicMsg = None
    /\ result = NoResult
    /\ wpc = "none"
    /\ cpc = "none"
    /\ cnext = <<>>
    /\ pipe = [s \in Streams |-> <<>>]
    /\ wOpen = [s \in Streams |-> FALSE]
    /\ rOpen = [s \in Streams |-> FALSE]
    /\ wrote = [s \in Streams |-> <<>>]
    /\ exitStatus = {}
    /\ readErr = {}
    /\ readBy = [s \in Streams |-> {}]
    /\ cmd = NoCommand
    /\ nSpawns = 0
    /\ nThreads = 0
    /\ nWaits = 0

\* ------------------------------------------------- build_program (31-71)
\* A panic on the invoking thread: the message is recorded and the stack
\* unwinds; the process exits in ProcessExit.
Panic(msg) ==
    /\ pc' = "panicked"
    /\ panicMsg' = msg

\* Variant: the skip check is made first, before the path is resolved.
ResolveChecksSkipFirst ==
    /\ pc = "resolve"
    /\ LET r == get_absolute_dir_of_program(path)
       IN  IF env["RUSTC_WORKSPACE_WRAPPER"] = Val(<<"/bin/", "clippy-driver">>)
           THEN /\ pc' = "done"
                /\ UNCHANGED << program_dir, dirs, panicMsg >>
           ELSE IF r.ok
           THEN /\ program_dir' = r.val
                /\ dirs' = TriggerDirs(r.val)
                /\ pc' = "emit_triggers"
                /\ UNCHANGED panicMsg
           ELSE /\ Panic(ResolveFailure(path))
                /\ UNCHANGED << program_dir, dirs >>
    /\ UNCHANGED << inputVars, cmd, readBy, root_package_name, stdoutP,
                    stderrP, result, wpc, childVars, pipe, rOpen, readErr,
                    countVars >>

\* get_absolute_dir_of_program(path).unwrap_or_else(panic), and the dirs vec.
Resolve ==
    /\ pc = "resolve"
    /\ LET r == get_absolute_dir_of_program(path)
       IN  IF r.ok
           THEN /\ program_dir' = r.val
                /\ dirs' = TriggerDirs(r.val)
                /\ pc' = "emit_triggers"
                /\ UNCHANGED panicMsg
           ELSE /\ Panic(ResolveFailure(path))
                /\ UNCHANGED << program_dir, dirs >>
    /\ UNCHANGED << inputVars, cmd, readBy,
                    root_package_name, stdoutP, stderrP, result,
                    wpc, childVars, pipe, rOpen, readErr, countVars >>

\* One iteration of `for dir in dirs { println!(...) }`.
EmitTrigger ==
    /\ pc = "emit_triggers"
    /\ dirs # <<>>
    /\ stdoutP' = Append(stdoutP, Trigger(Head(dirs)))
    /\ dirs' = Tail(dirs)
    /\ pc' = IF Tail(dirs) = <<>> THEN "metadata" ELSE "emit_triggers"
    /\ UNCHANGED << inputVars, cmd, readBy,
                    program_dir, root_package_name, stderrP,
                    panicMsg, result, wpc, childVars, pipe, rOpen, readErr,
                    countVars >>

\* metadata_cmd.manifest_path(..).exec().unwrap() on a failed lookup.
MetadataFails ==
    /\ pc = "metadata"
    /\ Panic(UnwrapFailure)
    /\ UNCHANGED << inputVars, cmd, readBy,
                    buildVars, stdoutP, stderrP, result, wpc,
                    childVars, pipe, rOpen, readErr, countVars >>

\* The lookup succeeds; root_package() is Some(name) or None ("Program").
MetadataFound ==
    /\ pc = "metadata"
    /\ \E name \in PackageNames \cup {"Program"} :
         root_package_name' = name
    /\ pc' = "warn_built"
    /\ UNCHANGED << inputVars, cmd, readBy,
                    program_dir, dirs, stdoutP, stderrP, panicMsg,
                    result, wpc, childVars, pipe, rOpen, readErr, countVars >>

\* println!("cargo:warning={} built at {}", ..), then the call at line 66.
WarnBuilt ==
    /\ pc = "warn_built"
    /\ stdoutP' = Append(stdoutP, BuiltWarning(root_package_name))
    /\ pc' = "check_skip"
    /\ UNCHANGED << inputVars, cmd, readBy,
                    buildVars, stderrP, panicMsg, result, wpc,
                    childVars, pipe, rOpen, readErr, countVars >>

\* Variant: only the Err of execute_build_cmd panics; the status is not
\* looked at.
CheckResultIgnoresStatus ==
    /\ pc = "check_result"
    /\ IF result.kind = "ok"
       THEN pc' = "done" /\ UNCHANGED panicMsg
       ELSE Panic(BuildFailure(root_package_name))
    /\ UNCHANGED << inputVars, cmd, readBy,
                    buildVars, stdoutP, stderrP, result, wpc,
                    childVars, pipe, rOpen, readErr, countVars >>

\* Lines 66-70: an Err or an unsuccessful status panics.
CheckResult ==
    /\ pc = "check_result"
    /\ IF result.kind = "ok" /\ result.status = {0}
       THEN pc' = "done" /\ UNCHANGED panicMsg
       ELSE Panic(BuildFailure(root_package_name))
    /\ UNCHANGED << inputVars, cmd, readBy,
                    buildVars, stdoutP, stderrP, result, wpc,
                    childVars, pipe, rOpen, readErr, countVars >>

\* The panic reaches the build script's main: the process exits, which ends
\* the worker thread and closes the read ends it still holds.
ProcessExit ==
    /\ pc = "panicked"
    /\ pc' = "aborted"
    /\ wpc' = IF wpc = "reading" THEN "killed" ELSE wpc
    /\ rOpen' = [s \in Streams |-> FALSE]
    /\ UNCHANGED << inputVars, cmd, readBy,
                    buildVars, stdoutP, stderrP, panicMsg, result,
                    childVars, pipe, readErr, countVars >>

\* --------------------------------------------- execute_build_cmd (74-112)
\* str::contains over the value's tokens.
Contains(val, tok) == \E i \in 1..Len(val) : val[i] = tok

\* Variant: any value of the variable counts, whatever it contains.
is_wrapper_set ==
    LET v == env["RUSTC_WORKSPACE_WRAPPER"]
    IN  v.set /\ v.unicode

\* Lines 79-81: env::var(..).map(contains).unwrap_or(false).
is_clippy_driver ==
    LET v == env["RUSTC_WORKSPACE_WRAPPER"]
    IN  v.set /\ v.unicode /\ Contains(v.val, "clippy-driver")

\* Variant: the notice is printed but the early return is missing.
CheckSkipFallsThrough ==
    /\ pc = "check_skip"
    /\ IF is_clippy_driver
       THEN stdoutP' = Append(stdoutP, SkipNotice)
       ELSE UNCHANGED stdoutP
    /\ pc' = "spawn"
    /\ UNCHANGED << inputVars, cmd, readBy,
                    buildVars, stderrP, panicMsg, result, wpc,
                    childVars, pipe, rOpen, readErr, countVars >>

\* Lines 82-85: the skip path returns Ok(ExitStatus::default()).
CheckSkip ==
    /\ pc = "check_skip"
    /\ IF is_clippy_driver
       THEN /\ stdoutP' = Append(stdoutP, SkipNotice)
            /\ result' = OkStatus(DefaultExitStatus)
            /\ pc' = "check_result"
       ELSE /\ pc' = "spawn"
            /\ UNCHANGED << stdoutP, result >>
    /\ UNCHANGED << inputVars, cmd, readBy,
                    buildVars, stderrP, panicMsg, wpc, childVars,
                    pipe, rOpen, readErr, countVars >>

\* Variant: the spawn error is swallowed and a default status returned.
SpawnFailsSwallowed ==
    /\ pc = "spawn"
    /\ result' = OkStatus(DefaultExitStatus)
    /\ pc' = "check_result"
    /\ UNCHANGED << inputVars, cmd, readBy,
                    buildVars, stdoutP, stderrP, panicMsg, wpc,
                    childVars, pipe, rOpen, readErr, countVars >>

\* Variant: the compiler override is left in the subprocess's environment.
BuildCommandKeepsRustc(dir) ==
    [ program |-> "cargo",
      args |-> <<"prove", "build">>,
      cwd |-> dir,
      env |-> [env EXCEPT !["CARGO_MANIFEST_DIR"] = Val(dir)] ]

\* Lines 87-93: Command::new("cargo") with its directory, its arguments and
\* its changes to the inherited environment.
BuildCommand(dir) ==
    [ program |-> "cargo",
      args |-> <<"prove", "build">>,
      cwd |-> dir,
      env |-> [env EXCEPT !["CARGO_MANIFEST_DIR"] = Val(dir),
                          !["RUSTC"] = Unset] ]

\* Line 94: cmd.spawn()? fails and the error is returned.
SpawnFails ==
    /\ pc = "spawn"
    /\ result' = IoError
    /\ pc' = "check_result"
    /\ UNCHANGED << inputVars, cmd, readBy,
                    buildVars, stdoutP, stderrP, panicMsg, wpc,
                    childVars, pipe, rOpen, readErr, countVars >>

\* Lines 94-97: the subprocess starts with both streams piped, and the two
\* read ends are taken into BufReaders.
SpawnOk ==
    /\ pc = "spawn"
    /\ cmd' = BuildCommand(program_dir)
    /\ cpc' = "running"
    /\ wOpen' = [s \in Streams |-> TRUE]
    /\ rOpen' = [s \in Streams |-> TRUE]
    /\ nSpawns' = nSpawns + 1
    /\ pc' = "spawn_thread"
    /\ UNCHANGED << inputVars, readBy, buildVars, stdoutP, stderrP, panicMsg,
                    result, wpc, cnext, wrote, exitStatus, pipe, readErr,
                    nThreads, nWaits >>

\* Variant: no thread; the invoking thread reads standard-out to its end
\* before it turns to standard-error.
SpawnThreadInline ==
    /\ pc = "spawn_thread"
    /\ readBy' = [readBy EXCEPT !["out"] = @ \cup {"main"}]
    /\ \/ /\ pipe["out"] # <<>>
          /\ Head(pipe["out"]) # InvalidLine
          /\ stdoutP' = Append(stdoutP, Relayed(Head(pipe["out"])))
          /\ pipe' = [pipe EXCEPT !["out"] = Tail(@)]
          /\ UNCHANGED << pc, panicMsg, wpc, rOpen, readErr >>
       \/ /\ pipe["out"] # <<>>
          /\ Head(pipe["out"]) = InvalidLine
          /\ pipe' = [pipe EXCEPT !["out"] = Tail(@)]
          /\ readErr' = readErr \cup {"out"}
          /\ rOpen' = [s \in Streams |-> FALSE]
          /\ Panic(UnwrapFailure)
          /\ UNCHANGED << stdoutP, wpc >>
       \/ /\ pipe["out"] = <<>>
          /\ ~wOpen["out"]
          /\ rOpen' = [rOpen EXCEPT !["out"] = FALSE]
          /\ wpc' = "finished"
          /\ pc' = "drain_stderr"
          /\ UNCHANGED << stdoutP, pipe, panicMsg, readErr >>
    /\ UNCHANGED << inputVars, cmd, buildVars, stderrP, result, childVars,
                    countVars >>

\* Line 100: thread::spawn of the stdout relay.
SpawnThread ==
    /\ pc = "spawn_thread"
    /\ wpc' = "reading"
    /\ nThreads' = nThreads + 1
    /\ pc' = "drain_stderr"
    /\ UNCHANGED << inputVars, cmd, readBy,
                    buildVars, stdoutP, stderrP, panicMsg, result,
                    childVars, pipe, rOpen, readErr, nSpawns, nWaits >>

\* Lines 105-107, a line is read: eprintln!("[sp1] {}", line.unwrap()).
StderrRelay ==
    /\ pc = "drain_stderr"
    /\ readBy' = [readBy EXCEPT !["err"] = @ \cup {"main"}]
    /\ pipe["err"] # <<>>
    /\ Head(pipe["err"]) # InvalidLine
    /\ stderrP' = Append(stderrP, Relayed(Head(pipe["err"])))
    /\ pipe' = [pipe EXCEPT !["err"] = Tail(@)]
    /\ UNCHANGED << inputVars, cmd,
                    pc, buildVars, stdoutP, panicMsg, result, wpc,
                    childVars, rOpen, readErr, countVars >>

\* Lines 105-107, the read fails: line.unwrap() panics on the invoking
\* thread; unwinding drops the stderr reader, detaches the worker and drops
\* the Child without waiting on it.
StderrReadFails ==
    /\ pc = "drain_stderr"
    /\ readBy' = [readBy EXCEPT !["err"] = @ \cup {"main"}]
    /\ pipe["err"] # <<>>
    /\ Head(pipe["err"]) = InvalidLine
    /\ pipe' = [pipe EXCEPT !["err"] = Tail(@)]
    /\ readErr' = readErr \cup {"err"}
    /\ rOpen' = [rOpen EXCEPT !["err"] = FALSE]
    /\ Panic(UnwrapFailure)
    /\ UNCHANGED << inputVars, cmd, buildVars, stdoutP, stderrP, result, wpc,
                    childVars, countVars >>

\* Variant: an empty pipe is taken for the end of the stream.
StderrEofOnEmpty ==
    /\ pc = "drain_stderr"
    /\ readBy' = [readBy EXCEPT !["err"] = @ \cup {"main"}]
    /\ pipe["err"] = <<>>
    /\ rOpen' = [rOpen EXCEPT !["err"] = FALSE]
    /\ pc' = "join"
    /\ UNCHANGED << inputVars, cmd, buildVars, stdoutP, stderrP, panicMsg,
                    result, wpc, childVars, pipe, readErr, countVars >>

\* Lines 105-107, end of stream: for_each returns and the reader is dropped.
StderrEof ==
    /\ pc = "drain_stderr"
    /\ readBy' = [readBy EXCEPT !["err"] = @ \cup {"main"}]
    /\ pipe["err"] = <<>>
    /\ ~wOpen["err"]
    /\ rOpen' = [rOpen EXCEPT !["err"] = FALSE]
    /\ pc' = "join"
    /\ UNCHANGED << inputVars, cmd,
                    buildVars, stdoutP, stderrP, panicMsg, result,
                    wpc, childVars, pipe, readErr, countVars >>

\* Variant: the worker is not joined before the wait.
JoinWithoutWaiting ==
    /\ pc = "join"
    /\ pc' = "wait"
    /\ UNCHANGED << inputVars, cmd, readBy,
                    buildVars, stdoutP, stderrP, panicMsg, result,
                    wpc, childVars, pipe, rOpen, readErr, countVars >>

\* Variant: the worker is joined but the Err of a panicked worker is
\* discarded.
JoinIgnoresPanic ==
    /\ pc = "join"
    /\ wpc \in {"finished", "panicked"}
    /\ pc' = "wait"
    /\ UNCHANGED << inputVars, cmd, readBy,
                    buildVars, stdoutP, stderrP, panicMsg, result,
                    wpc, childVars, pipe, rOpen, readErr, countVars >>

\* Variant: the worker is only polled (is_finished), not waited for.
JoinIfFinished ==
    /\ pc = "join"
    /\ IF wpc = "panicked"
       THEN Panic(UnwrapFailure)
       ELSE pc' = "wait" /\ UNCHANGED panicMsg
    /\ UNCHANGED << inputVars, cmd, readBy, buildVars, stdoutP, stderrP,
                    result, wpc, childVars, pipe, rOpen, readErr, countVars >>

\* Line 109: stdout_handle.join().unwrap(); a panicked worker yields Err.
Join ==
    /\ pc = "join"
    /\ wpc \in {"finished", "panicked"}
    /\ IF wpc = "finished"
       THEN pc' = "wait" /\ UNCHANGED panicMsg
       ELSE Panic(UnwrapFailure)
    /\ UNCHANGED << inputVars, cmd, readBy,
                    buildVars, stdoutP, stderrP, result, wpc,
                    childVars, pipe, rOpen, readErr, countVars >>

\* Line 111: child.wait() returns the exit status of the exited subprocess.
Wait ==
    /\ pc = "wait"
    /\ cpc = "exited"
    /\ \E st \in exitStatus : result' = OkStatus(st)
    /\ nWaits' = nWaits + 1
    /\ pc' = "check_result"
    /\ UNCHANGED << inputVars, cmd, readBy,
                    buildVars, stdoutP, stderrP, panicMsg, wpc,
                    childVars, pipe, rOpen, readErr, nSpawns, nThreads >>

\* Line 111: child.wait() fails.
WaitFails ==
    /\ pc = "wait"
    /\ result' = IoError
    /\ nWaits' = nWaits + 1
    /\ pc' = "check_result"
    /\ UNCHANGED << inputVars, cmd, readBy,
                    buildVars, stdoutP, stderrP, panicMsg, wpc,
                    childVars, pipe, rOpen, readErr, nSpawns, nThreads >>

\* ------------------------------------------ the worker thread (100-104)
\* Variant: the worker relays with eprintln! instead of println!.
StdoutRelayWrongChannel ==
    /\ wpc = "reading"
    /\ readBy' = [readBy EXCEPT !["out"] = @ \cup {"worker"}]
    /\ pipe["out"] # <<>>
    /\ Head(pipe["out"]) # InvalidLine
    /\ stderrP' = Append(stderrP, Relayed(Head(pipe["out"])))
    /\ pipe' = [pipe EXCEPT !["out"] = Tail(@)]
    /\ UNCHANGED << inputVars, cmd,
                    pc, buildVars, stdoutP, panicMsg, result, wpc,
                    childVars, rOpen, readErr, countVars >>

\* A line is read: println!("[sp1] {}", line.unwrap()).
StdoutRelay ==
    /\ wpc = "reading"
    /\ readBy' = [readBy EXCEPT !["out"] = @ \cup {"worker"}]
    /\ pipe["out"] # <<>>
    /\ Head(pipe["out"]) # InvalidLine
    /\ stdoutP' = Append(stdoutP, Relayed(Head(pipe["out"])))
    /\ pipe' = [pipe EXCEPT !["out"] = Tail(@)]
    /\ UNCHANGED << inputVars, cmd,
                    pc, buildVars, stderrP, panicMsg, result, wpc,
                    childVars, rOpen, readErr, countVars >>

\* The read fails: line.unwrap() panics on the worker, whose closure (and
\* with it the stdout reader) is dropped; the invoking thread goes on.
StdoutReadFails ==
    /\ wpc = "reading"
    /\ readBy' = [readBy EXCEPT !["out"] = @ \cup {"worker"}]
    /\ pipe["out"] # <<>>
    /\ Head(pipe["out"]) = InvalidLine
    /\ pipe' = [pipe EXCEPT !["out"] = Tail(@)]
    /\ readErr' = readErr \cup {"out"}
    /\ rOpen' = [rOpen EXCEPT !["out"] = FALSE]
    /\ wpc' = "panicked"
    /\ UNCHANGED << inputVars, cmd, pc, buildVars, stdoutP, stderrP, panicMsg,
                    result, childVars, countVars >>

\* End of stream: the closure returns.
StdoutEof ==
    /\ wpc = "reading"
    /\ readBy' = [readBy EXCEPT !["out"] = @ \cup {"worker"}]
    /\ pipe["out"] = <<>>
    /\ ~wOpen["out"]
    /\ rOpen' = [rOpen EXCEPT !["out"] = FALSE]
    /\ wpc' = "finished"
    /\ UNCHANGED << inputVars, cmd, pc, buildVars, stdoutP, stderrP, panicMsg,
                    result, childVars, pipe, readErr, countVars >>

\* ---------------------------------------- the subprocess (cargo prove build)
\* The subprocess starts writing a line to one of its streams.
ChildStartWrite ==
    /\ cpc = "running"
    /\ cnext = <<>>
    /\ \E s \in Streams :
         /\ wOpen[s]
         /\ Len(wrote[s]) < MaxLines
         /\ \E l \in Lines(s, Len(wrote[s]) + 1) : cnext' = <<s, l>>
    /\ UNCHANGED << inputVars, cmd, readBy,
                    pc, buildVars, stdoutP, stderrP, panicMsg,
                    result, wpc, cpc, wOpen, wrote, exitStatus, pipe, rOpen,
                    readErr, countVars >>

\* The write completes once the pipe has room; until then it blocks.
ChildWrite ==
    /\ cpc = "running"
    /\ cnext # <<>>
    /\ rOpen[cnext[1]]
    /\ Len(pipe[cnext[1]]) < PipeCap
    /\ pipe' = [pipe EXCEPT ![cnext[1]] = Append(@, cnext[2])]
    /\ wrote' = [wrote EXCEPT ![cnext[1]] = Append(@, cnext[2])]
    /\ cnext' = <<>>
    /\ UNCHANGED << inputVars, cmd, readBy,
                    pc, buildVars, stdoutP, stderrP, panicMsg,
                    result, wpc, cpc, wOpen, exitStatus, rOpen, readErr,
                    countVars >>

\* The read end is gone: the write fails (EPIPE) and the subprocess gives
\* the stream up.
ChildBrokenPipe ==
    /\ cpc = "running"
    /\ cnext # <<>>
    /\ ~rOpen[cnext[1]]
    /\ wOpen' = [wOpen EXCEPT ![cnext[1]] = FALSE]
    /\ cnext' = <<>>
    /\ UNCHANGED << inputVars, cmd, readBy,
                    pc, buildVars, stdoutP, stderrP, panicMsg,
                    result, wpc, cpc, wrote, exitStatus, pipe, rOpen, readErr,
                    countVars >>

\* The subprocess closes one stream before it exits.
ChildClose ==
    /\ cpc = "running"
    /\ cnext = <<>>
    /\ \E s \in Streams :
         /\ wOpen[s]
         /\ wOpen' = [wOpen EXCEPT ![s] = FALSE]
    /\ UNCHANGED << inputVars, cmd, readBy,
                    pc, buildVars, stdoutP, stderrP, panicMsg,
                    result, wpc, cpc, cnext, wrote, exitStatus, pipe, rOpen,
                    readErr, countVars >>

\* The subprocess exits, which closes the write ends it still holds.
ChildExit ==
    /\ cpc = "running"
    /\ cnext = <<>>
    /\ \E st \in Statuses : exitStatus' = {st}
    /\ wOpen' = [s \in Streams |-> FALSE]
    /\ cpc' = "exited"
    /\ UNCHANGED << inputVars, cmd, readBy,
                    pc, buildVars, stdoutP, stderrP, panicMsg,
                    result, wpc, cnext, wrote, pipe, rOpen, readErr,
                    countVars >>

\* ------------------------------------------------------- specifications
MainStep ==
    \/ Resolve \/ EmitTrigger \/ MetadataFails \/ MetadataFound \/ WarnBuilt
    \/ CheckSkip \/ SpawnFails \/ SpawnOk \/ SpawnThread
    \/ StderrRelay \/ StderrReadFails \/ StderrEof
    \/ Join \/ Wait \/ WaitFails \/ CheckResult \/ ProcessExit

WorkerStep == StdoutRelay \/ StdoutReadFails \/ StdoutEof

ChildStep ==
    ChildStartWrite \/ ChildWrite \/ ChildBrokenPipe \/ ChildClose \/ ChildExit

Next == MainStep \/ WorkerStep \/ ChildStep

Spec == Init /\ [][Next]_vars

\* The operating system schedules every runnable thread and process.
FairSpec ==
    Spec /\ WF_vars(MainStep) /\ WF_vars(WorkerStep) /\ WF_vars(ChildStep)

TypeOK ==
    /\ pc \in { "resolve", "emit_triggers", "metadata", "warn_built",
                "check_skip", "spawn", "spawn_thread", "drain_stderr", "join",
                "wait", "check_result", "done", "panicked", "aborted" }
    /\ wpc \in { "none", "reading", "finished", "panicked", "killed" }
    /\ cpc \in { "none", "running", "exited" }
    /\ \A s \in Streams : Len(pipe[s]) <= PipeCap /\ Len(wrote[s]) <= MaxLines

\* ------------------------------------------------------- shared notions
\* The subprocess was spawned and both drains have run to end-of-stream:
\* the invoking thread is at the wait or past it.
BothDrained == nSpawns = 1 /\ (pc = "wait" \/ nWaits > 0)

\* What the relay owes a channel for the lines ws.
ExpectedRelay(ws) == [i \in 1..Len(ws) |-> "[sp1] " \o ws[i]]

\* The three rerun directives of the resolved directory.
ExpectedTriggers ==
    << "cargo:rerun-if-changed=" \o display(program_dir \o <<"src">>),
       "cargo:rerun-if-changed=" \o display(program_dir \o <<"Cargo.toml">>),
       "cargo:rerun-if-changed=" \o display(program_dir \o <<"Cargo.lock">>) >>

\* What build_program prints before it calls execute_build_cmd.
ExpectedPreamble ==
    ExpectedTriggers \o
    << "cargo:warning=" \o root_package_name \o " built at <now>" >>

Aborted == pc \in {"panicked", "aborted"}

\* The subprocess is blocked in a write to the full pipe of stream s.
ChildBlockedOn(s) ==
    /\ cpc = "running"
    /\ cnext # <<>>
    /\ cnext[1] = s
    /\ rOpen[s]
    /\ Len(pipe[s]) >= PipeCap

\* A parent thread is reading the pipe of stream s, or is on its way to the
\* read without anything to block on before it.
ReaderActive(s) ==
    IF s = "out"
    THEN wpc = "reading" \/ (wpc = "none" /\ pc = "spawn_thread")
    ELSE pc \in {"spawn_thread", "drain_stderr"}

\* execute_build_cmd has returned without the skip path and without a
\* subprocess: the spawn failed.
SpawnFailed == ~is_clippy_driver /\ nSpawns = 0 /\ result.kind # "none"

C2_NoStarvedPipe == \A s \in Streams : ChildBlockedOn(s) => ReaderActive(s)

C2_NoDeadlock ==
    /\ []C2_NoStarvedPipe
    /\ (nSpawns = 1) ~> (readErr # {} \/ (nWaits = 1 /\ result.kind # "none"))

C2_Witness ==
    /\ ChildBlockedOn("out")
    /\ pc = "drain_stderr"
    /\ pipe["err"] = <<>>
    /\ wOpen["err"]

\* C3: with the skip signal present no subprocess and no worker thread is
\* ever spawned, no line is relayed and no wait is made; once the executor
\* has run, the skip notice is the last thing printed and the result is the
\* successful default status, so the invocation ends in success.
C3_SkipNeverSpawns ==
    is_clippy_driver =>
        /\ nSpawns = 0 /\ nThreads = 0 /\ nWaits = 0
        /\ cpc = "none" /\ wpc = "none"
        /\ stderrP = <<>>
        /\ pc \notin {"spawn", "spawn_thread", "drain_stderr", "join", "wait"}
        /\ Len(stdoutP) <= Len(ExpectedTriggers) + 2
        /\ (root_package_name # None /\ pc \notin {"warn_built", "check_skip"})
             => /\ pc \in {"check_result", "done"}
                /\ result = OkStatus(0)
                /\ stdoutP = ExpectedPreamble \o
                     <<"cargo:warning=Skipping build due to clippy invocation.">>

C3_Witness == is_clippy_driver /\ pc = "done"

\* C4: in an invocation that spawned the subprocess, build_program ends in
\* success only with exit status 0 obtained after both streams were relayed
\* to their end, and a status 0 so obtained ends in success; a non-zero
\* status or a failed wait ends in the panic "Failed to build '<name>'."
\* with the display name (a package name or "Program").
C4_SuccessIffExitZero ==
    nSpawns = 1 =>
        /\ pc = "done" =>
             /\ exitStatus = {0} /\ result = OkStatus(0) /\ nWaits = 1
             /\ stdoutP = ExpectedPreamble \o ExpectedRelay(wrote["out"])
             /\ stderrP = ExpectedRelay(wrote["err"])
        /\ (Aborted /\ result.kind # "none") =>
             /\ result # OkStatus(0)
             /\ root_package_name \in PackageNames \cup {"Program"}
             /\ panicMsg = "Failed to build '" \o root_package_name \o "'."
        /\ (Aborted /\ result.kind = "none") => readErr # {}

C4_Witness ==
    /\ nSpawns = 1
    /\ pc = "done"
    /\ Len(wrote["out"]) = MaxLines
    /\ Len(wrote["err"]) > 0

\* C5 (as claimed): after a successful resolution the invocation never
\* aborts for want of a display name: a failed metadata lookup falls back
\* to the placeholder and goes on to the executor.
C5_LookupNeverFatal ==
    ~(Aborted /\ program_dir # NoPath /\ root_package_name = None)

\* C6 (as claimed): every invocation that spawned the subprocess ends with
\* exactly one wait made and both streams drained to their end.
C6_WaitedExactlyOnce ==
    (nSpawns = 1 /\ pc \in {"done", "aborted"}) =>
        /\ nWaits = 1
        /\ \A s \in Streams : pipe[s] = <<>> /\ ~wOpen[s]

\* C7: the wait is never made before both drains are over: whenever the
\* invoking thread is at the join or beyond, standard-error has been read to
\* its end, and whenever it is at the wait or beyond, the worker has
\* finished reading standard-out to its end; there is at most one wait.
C7_WaitAfterDrains ==
    /\ (pc \in {"join", "wait"} \/ nWaits > 0) =>
          pipe["err"] = <<>> /\ ~wOpen["err"] /\ ~rOpen["err"]
    /\ (pc = "wait" \/ nWaits > 0) =>
          wpc = "finished" /\ pipe["out"] = <<>> /\ ~wOpen["out"]
    /\ nWaits <= 1

C7_Witness ==
    /\ nWaits = 1
    /\ Len(wrote["out"]) = MaxLines
    /\ Len(wrote["err"]) = MaxLines

\* C8: after a failed spawn there is no subprocess, no worker thread, no
\* relayed line and no wait, and build_program ends in the panic
\* "Failed to build '<name>'." with the display name, never in success.
C8_SpawnFailure ==
    SpawnFailed =>
        /\ result = IoError
        /\ nThreads = 0 /\ nWaits = 0
        /\ cpc = "none" /\ wpc = "none"
        /\ stderrP = <<>>
        /\ stdoutP = ExpectedPreamble
        /\ pc \in {"check_result", "panicked", "aborted"}
        /\ Aborted => panicMsg = "Failed to build '" \o root_package_name \o "'."

C8_Witness == SpawnFailed /\ pc = "aborted"

\* C9: once a line read has failed on either stream, build_program never
\* ends in success, whatever the exit status of the subprocess.
C9_ReadErrorFatal == readErr # {} => pc # "done"

C9_Witness == readErr = {"out"} /\ exitStatus = {0} /\ pc = "aborted"

\* C10: after a successful resolution exactly the three rerun directives of
\* {dir}/src, {dir}/Cargo.toml and {dir}/Cargo.lock are printed, first of
\* all output and before the metadata lookup and the executor start; when
\* the resolution fails nothing is printed.
C10_ThreeTriggers ==
    /\ program_dir = NoPath => stdoutP = <<>>
    /\ pc = "emit_triggers" =>
          /\ root_package_name = None /\ nSpawns = 0 /\ result = NoResult
          /\ Len(stdoutP) < 3
          /\ stdoutP = SubSeq(ExpectedTriggers, 1, Len(stdoutP))
    /\ (program_dir # NoPath /\ pc # "emit_triggers") =>
          /\ Len(stdoutP) >= 3
          /\ SubSeq(stdoutP, 1, 3) = ExpectedTriggers
          /\ \A i \in 4..Len(stdoutP) :
               \A j \in 1..3 : stdoutP[i] # ExpectedTriggers[j]

C10_Witness == result = OkStatus(1) /\ pc = "aborted" /\ Len(stdoutP) > 4

\* C11: the resolver gives canonicalize(anchor root joined with the input)
\* for a relative input and canonicalize(input) for an absolute one, where
\* the anchor root is the build script's directory /ws/crate and not the
\* working directory /cwd; it fails for every input whose path does not
\* exist; and after a failure build_program has aborted with the message
\* naming the input, having printed no trigger, looked up no metadata and
\* spawned nothing.
C11_ExpectedDir ==
    CASE path = <<"..", "prog">> -> <<"/", "ws", "prog">>
      [] path = <<"link">> -> <<"/", "ws", "prog">>
      [] path = <<"/", "ws", "other">> -> <<"/", "ws", "other">>
      [] OTHER -> NoPath

C11_Resolution ==
    LET joined == IF path = <<>> \/ path[1] # "/"
                  THEN <<"/", "ws", "crate">> \o path
                  ELSE path
        r == canonicalize(joined)
    IN  pc # "resolve" =>
          /\ program_dir = C11_ExpectedDir
          /\ r.ok => program_dir = r.val /\ program_dir \in Dirs
          /\ ~r.ok =>
               /\ program_dir = NoPath
               /\ Aborted
               /\ panicMsg =
                    "Failed to get the absolute path of the program directory '"
                        \o display(path) \o "'."
               /\ stdoutP = <<>> /\ stderrP = <<>>
               /\ root_package_name = None
               /\ nSpawns = 0 /\ nThreads = 0 /\ nWaits = 0

C11_Witness ==
    /\ path = <<"only_cwd">>
    /\ pc = "aborted"
    /\ panicMsg # None

\* C12 (as claimed): the "<name> built at <timestamp>" warning is printed
\* only once the subprocess has been run and has exited with status 0.
C12_WarningMeansBuilt ==
    (\E i \in 1..Len(stdoutP) :
        stdoutP[i] = "cargo:warning=" \o root_package_name \o " built at <now>")
    => (nSpawns = 1 /\ exitStatus = {0} /\ result = OkStatus(0))

\* C13 (as claimed): once a line read on standard-out has failed in the
\* worker, the parent relays no further line of either stream.
C13_NoRelayAfterStdoutFailure ==
    [][ "out" \in readErr => (stdoutP' = stdoutP /\ stderrP' = stderrP) ]_vars

\* C14: there is at most one worker thread, and none without a subprocess;
\* once the thread has been spawned there is exactly one; the pipe of
\* standard-out is read by the worker only and the pipe of standard-error by
\* the invoking thread only; and the invoking thread is at the join (or past
\* it) only after it has read standard-error to its end.
C14_OneWorkerOneReaderPerPipe ==
    /\ nThreads <= 1
    /\ nThreads <= nSpawns
    /\ (nThreads = 1) <=> (wpc # "none")
    /\ (nSpawns = 1 /\ pc # "spawn_thread") => nThreads = 1
    /\ readBy["out"] \subseteq {"worker"}
    /\ readBy["err"] \subseteq {"main"}
    /\ (pc \in {"join", "wait"} \/ nWaits > 0) =>
          /\ readBy["err"] = {"main"}
          /\ pipe["err"] = <<>>
          /\ ~wOpen["err"]
          /\ stderrP = ExpectedRelay(wrote["err"])

C14_Witness ==
    /\ pc = "join"
    /\ nThreads = 1
    /\ readBy = [s \in Streams |-> IF s = "out" THEN {"worker"} ELSE {"main"}]
    /\ Len(wrote["err"]) = MaxLines
    /\ Len(stdoutP) > Len(ExpectedPreamble)

\* The executor's states in the order of the spec's state machine.
C15_Rank(p) ==
    CASE p = "resolve" -> 0
      [] p = "emit_triggers" -> 1
      [] p = "metadata" -> 2
      [] p = "warn_built" -> 3
      [] p = "check_skip" -> 4
      [] p = "spawn" -> 5
      [] p = "spawn_thread" -> 6
      [] p = "drain_stderr" -> 7
      [] p = "join" -> 8
      [] p = "wait" -> 9
      [] p = "check_result" -> 10
      [] p = "done" -> 11
      [] p = "panicked" -> 11
      [] OTHER -> 12

\* A failure has happened: a failed resolution or lookup or a fatal result
\* (the invocation is aborting), a failed spawn or wait, a failed line read
\* or a non-zero exit status.
C15_Failed ==
    \/ Aborted
    \/ readErr # {}
    \/ result.kind = "err"
    \/ (result.kind = "ok" /\ result.status # {0})

\* C15 (as claimed): the subprocess is spawned at most once, after a failure
\* nothing is spawned, read from a pipe, relayed or waited on any more, and
\* the invoking thread never goes back to an earlier state.
C15_NoRetryLinear ==
    [][ /\ nSpawns' <= 1
        /\ C15_Rank(pc') >= C15_Rank(pc)
        /\ C15_Failed =>
             /\ nSpawns' = nSpawns /\ nThreads' = nThreads /\ nWaits' = nWaits
             /\ \A s \in Streams : Len(pipe'[s]) >= Len(pipe[s])
             /\ stdoutP' = stdoutP /\ stderrP' = stderrP ]_vars

\* execute_build_cmd has got past its skip check.
PastCheckSkip ==
    root_package_name # None /\ pc \notin {"warn_built", "check_skip"}

\* C16: the skip path is taken exactly when RUSTC_WORKSPACE_WRAPPER is set
\* to a unicode value containing "clippy-driver"; when it is unset, not
\* unicode or set to something else, the executor goes on to the spawn.
C16_SkipIffClippyDriver ==
    LET v == env["RUSTC_WORKSPACE_WRAPPER"]
        signal == /\ v.set
                  /\ v.unicode
                  /\ \E i \in 1..Len(v.val) : v.val[i] = "clippy-driver"
        noticed == \E i \in 1..Len(stdoutP) :
                      stdoutP[i] =
                        "cargo:warning=Skipping build due to clippy invocation."
        spawning == pc = "spawn" \/ nSpawns = 1 \/ result = IoError
    IN  /\ noticed => signal
        /\ spawning => ~signal
        /\ PastCheckSkip =>
             IF signal
             THEN noticed /\ ~spawning /\ result = OkStatus(0)
             ELSE spawning /\ ~noticed

C16_Witness ==
    /\ env["RUSTC_WORKSPACE_WRAPPER"] = NotUnicode
    /\ nSpawns = 1
    /\ pc = "drain_stderr"

\* C17: the subprocess is started as `cargo prove build` in the resolved
\* directory, with the parent's environment except that CARGO_MANIFEST_DIR
\* is the resolved directory and RUSTC is absent; and no step changes the
\* parent's own environment, whose CARGO_MANIFEST_DIR and RUSTC stay set.
C17_CommandOk ==
    IF nSpawns = 0 THEN cmd = NoCommand
    ELSE /\ cmd.program = "cargo"
         /\ cmd.args = <<"prove", "build">>
         /\ cmd.cwd = program_dir
         /\ cmd.env["CARGO_MANIFEST_DIR"] = Val(program_dir)
         /\ ~cmd.env["RUSTC"].set
         /\ cmd.env["RUSTC_WORKSPACE_WRAPPER"] = env["RUSTC_WORKSPACE_WRAPPER"]
         /\ DOMAIN cmd.env = DOMAIN env

C17_ParentEnvOk ==
    /\ env["CARGO_MANIFEST_DIR"] = Val(<<"/", "ws", "crate">>)
    /\ env["RUSTC"] = Val(<<"/bin/", "rustc">>)

C17_CommandAndFrame ==
    /\ [](C17_CommandOk /\ C17_ParentEnvOk)
    /\ [][env' = env]_vars

C17_Witness ==
    /\ nSpawns = 1
    /\ cmd.cwd = <<"/", "ws", "prog">>
    /\ env["RUSTC"].set
    /\ ~cmd.env["RUSTC"].set

C19_SkipCheckedLast ==
    LET noticed == \E i \in 1..Len(stdoutP) : stdoutP[i] = SkipNotice
    IN  is_clippy_driver =>
          /\ (noticed \/ pc = "done") =>
               /\ program_dir # NoPath
               /\ root_package_name \in PackageNames \cup {"Program"}
               /\ stdoutP = ExpectedPreamble \o <<SkipNotice>>
          /\ pc = "done" => noticed
          /\ (pc \notin {"resolve"} /\ C11_ExpectedDir = NoPath) =>
               Aborted /\ ~noticed
          /\ (program_dir # NoPath /\ root_package_name = None) =>
               pc \in {"emit_triggers", "metadata", "panicked", "aborted"}

C19_Witness ==
    /\ is_clippy_driver
    /\ program_dir # NoPath
    /\ root_package_name = None
    /\ pc = "aborted"

====
